---- MODULE Spec2Model ----
(***************************************************************************)
(* Model of answer-server.py: the POST /answer handler, the configuration  *)
(* files under ./config, the MAC-specific override lookup, the merge, the  *)
(* mandatory-field check, the strict-undefined template rendering and the  *)
(* TOML validation of the rendered text.                                   *)
(*                                                                         *)
(* Strings whose characters matter (file names, MAC addresses) are         *)
(* sequences of one-character strings, so that lower-casing and prefix     *)
(* tests are computed.  Configuration mappings are functions from keys to  *)
(* values.  The aiohttp event loop is one thread: a handler runs on it     *)
(* from one await to the next, and answer() awaits only request.text().    *)
(***************************************************************************)
EXTENDS Integers, Sequences, FiniteSets, TLC

VARIABLES
    disk,             \* ./config: file name -> YAML document (<<>> is an empty file)
    template,         \* ./template/answer.toml.j2
    running,          \* the handlers occupying the event-loop thread (at most one)
    pc,               \* each handler's position in answer()/create_answer()
    nic_limit,        \* the longest network_interfaces list the clients send
    body,             \* each handler's request body
    final_config,     \* create_answer: final_config
    mac_config,       \* create_answer: mac_config
    idx,              \* create_answer: position of the for loop over network_interfaces
    looked,           \* history: the lookup_config_for_mac calls made, with the file each loaded
    rendered_content, \* create_answer: rendered_content
    exc,              \* the exception that ended the request, "none" if none
    response          \* what answer() returned (or that an exception left it)

vars == <<disk, template, running, pc, nic_limit, body, final_config, mac_config, idx,
          looked, rendered_content, exc, response>>

----------------------------------------------------------------------------
(* Bounds *)

MaxNics == 3

MaxHandlers == 2

Handlers == 1 .. MaxHandlers

----------------------------------------------------------------------------
(* Strings as character sequences *)

LowerChar(c) ==
    CASE c = "A" -> "a"
      [] c = "B" -> "b"
      [] c = "C" -> "c"
      [] c = "D" -> "d"
      [] c = "E" -> "e"
      [] c = "F" -> "f"
      [] OTHER -> c

\* str.lower()
Lower(s) == [i \in 1 .. Len(s) |-> LowerChar(s[i])]

\* str.startswith(p)
StartsWith(s, p) == Len(p) <= Len(s) /\ SubSeq(s, 1, Len(p)) = p

\* str.endswith(p)
EndsWith(s, p) == Len(p) <= Len(s) /\ SubSeq(s, Len(s) - Len(p) + 1, Len(s)) = p

YmlExt == <<".", "y", "m", "l">>

TxtExt == <<".", "t", "x", "t">>

\* CONFIG_DIR / "defaults.yml", as the file's name inside CONFIG_DIR
DEFAULT_CONFIG_PATH == <<"d", "e", "f", "a", "u", "l", "t", "s">> \o YmlExt

----------------------------------------------------------------------------
(* Configuration mappings *)

EmptyMap == [k \in {} |-> ""]

Map1(k1, v1) == [k \in {k1} |-> v1]

Map2(k1, v1, k2, v2) == [k \in {k1, k2} |-> IF k = k1 THEN v1 ELSE v2]

Map3(k1, v1, k2, v2, k3, v3) ==
    [k \in {k1, k2, k3} |-> IF k = k1 THEN v1 ELSE IF k = k2 THEN v2 ELSE v3]

\* dict.update: a shallow merge in which the argument's keys win
UpdateKeepsDefault(d, o) ==
    [k \in DOMAIN d \cup DOMAIN o |-> IF k \in DOMAIN d THEN d[k] ELSE o[k]]

Update(d, o) ==
    [k \in DOMAIN d \cup DOMAIN o |-> IF k \in DOMAIN o THEN o[k] ELSE d[k]]

\* yaml.safe_load(f) or {} : an empty file loads as the empty mapping
load_yaml(path) == IF Len(disk[path]) = 0 THEN EmptyMap ELSE disk[path][1]

----------------------------------------------------------------------------
(* The files the model puts under ./config *)

F_aa == <<"a", "a">> \o YmlExt

F_aab == <<"a", "a", "b">> \o YmlExt

F_BB == <<"B", "B">> \o YmlExt

F_bbb == <<"b", "b", "b">> \o YmlExt

F_a == <<"a">> \o YmlExt

F_ab == <<"a", "b">> \o YmlExt

F_aa_txt == <<"a", "a">> \o TxtExt

Doc(m) == <<m>>

OverrideDoc(f) ==
    CASE f = F_aa -> Doc(Map1("server_hostname", "custom"))
      [] f = F_aab -> Doc(Map2("server_address", "10.0.0.2", "extra", "y"))
      [] f = F_BB -> Doc(Map1("server_hostname", "cu\"st"))
      [] f = F_bbb -> << >>
      [] f = F_a -> Doc(Map1("extra", "z"))
      [] f = F_ab -> Doc(Map1("server_hostname", "custom"))
      [] OTHER -> Doc(Map1("server_hostname", "txt"))

OverrideSets ==
    { {F_aa_txt},
      {F_aa, F_BB},
      {F_aa, F_aab},
      {F_a, F_ab},
      {F_BB, F_bbb, F_aa} }

DefaultDocs ==
    { Doc(Map3("server_hostname", "host1", "server_address", "10.0.0.1", "extra", "x")),
      Doc(Map2("server_hostname", "host1", "server_address", "10.0.0.1")),
      Doc(Map2("server_hostname", "", "server_address", "10.0.0.1")),
      Doc(Map1("server_hostname", "host1")),
      << >> }

\* ./config with defaults.yml (assert_required_paths) and the override files fs
Directory(defaults, fs) ==
    [f \in fs \cup {DEFAULT_CONFIG_PATH} |->
        IF f = DEFAULT_CONFIG_PATH THEN defaults ELSE OverrideDoc(f)]

Directories == {Directory(d, fs) : d \in DefaultDocs, fs \in OverrideSets}

----------------------------------------------------------------------------
(* The template: its literal text, the variables it prints, whether it parses *)

Templates ==
    { [literal |-> "hostname = \"{}\" address = \"{}\"", syntax_ok |-> TRUE,
       refs |-> <<"server_hostname", "server_address">>],
      [literal |-> "hostname = \"{}\" extra = \"{}\"", syntax_ok |-> TRUE,
       refs |-> <<"server_hostname", "extra">>],
      [literal |-> "hostname = = {}", syntax_ok |-> TRUE,
       refs |-> <<"server_hostname">>],
      [literal |-> "hostname = {{", syntax_ok |-> FALSE,
       refs |-> <<"server_hostname">>] }

\* literal texts that are not TOML whatever is substituted
BrokenLiterals == {"hostname = = {}", "hostname = {{"}

\* values that end the quoted TOML string they are substituted into
BreakingValues == {"cu\"st"}

----------------------------------------------------------------------------
(* Request bodies *)

Macs == { <<"A", "A">>, <<"b", "b">>, <<"A", ":", "B">>, <<"d">> }

\* one element of network_interfaces: a JSON object with or without a "mac"
\* (mac <<>> is the empty string), or a JSON value that is not an object
NicNoMac == [obj |-> TRUE, has_mac |-> FALSE, mac |-> << >>]

NicNotObject == [obj |-> FALSE, has_mac |-> FALSE, mac |-> << >>]

NicMac(m) == [obj |-> TRUE, has_mac |-> TRUE, mac |-> m]

NicPool == {NicNoMac, NicNotObject, NicMac(<< >>)} \cup {NicMac(m) : m \in Macs}

NicLists == UNION {[1 .. n -> NicPool] : n \in 0 .. MaxNics}

\* valid JSON that is not an object
NonObjects == {"null", "list", "number"}

Bodies ==
    {[json |-> j, nics |-> << >>] : j \in {"malformed"} \cup NonObjects}
        \cup {[json |-> "object", nics |-> ns] : ns \in NicLists}

----------------------------------------------------------------------------
(* lookup_config_for_mac *)

\* CONFIG_DIR.glob("*.yml"): the files it yields; their order is arbitrary
Glob == {f \in DOMAIN disk : EndsWith(f, YmlExt)}

MatchesIdentifierPrefix(filename, mac) ==
    StartsWith(Lower(mac), Lower(SubSeq(filename, 1, Len(filename) - Len(YmlExt))))

\* mac = mac.lower(); filename.name.lower().startswith(mac)
Matches(filename, mac) == StartsWith(Lower(filename), Lower(mac))

NoMatch == [found |-> FALSE, file |-> << >>, cfg |-> EmptyMap]

\* The values the call can return: the load of a matching file, whichever the
\* directory scan yields first, or None when no file matches.
lookup_config_for_mac(mac) ==
    LET matching == {f \in Glob : Matches(f, mac)}
    IN  IF matching = {}
        THEN {NoMatch}
        ELSE {[found |-> TRUE, file |-> f, cfg |-> load_yaml(f)] : f \in matching}

----------------------------------------------------------------------------
(* create_answer, step by step *)

required_fields_hostname_only == <<"server_hostname">>

required_fields == <<"server_hostname", "server_address">>

\* the fields the check of step 4 finds missing
MissingFields(config) ==
    {i \in 1 .. Len(required_fields) : required_fields[i] \notin DOMAIN config}

NotRendered == << >>

RenderLenient(t, config) ==
    IF ~t.syntax_ok
    THEN [exc |-> "TemplateSyntaxError", text |-> NotRendered]
    ELSE [exc |-> "none",
          text |-> <<t.literal>> \o
                   [i \in 1 .. Len(t.refs) |->
                       IF t.refs[i] \in DOMAIN config THEN config[t.refs[i]] ELSE ""]]

\* jinja_env.get_template(...) then template.render(final_config), StrictUndefined
Render(t, config) ==
    IF ~t.syntax_ok
    THEN [exc |-> "TemplateSyntaxError", text |-> NotRendered]
    ELSE IF \E i \in 1 .. Len(t.refs) : t.refs[i] \notin DOMAIN config
    THEN [exc |-> "UndefinedError", text |-> NotRendered]
    ELSE [exc |-> "none",
          text |-> <<t.literal>> \o [i \in 1 .. Len(t.refs) |-> config[t.refs[i]]]]

\* tomlkit.parse(rendered_content) does not raise
TomlValid(text) ==
    /\ text[1] \notin BrokenLiterals
    /\ \A i \in 2 .. Len(text) : text[i] \notin BreakingValues

----------------------------------------------------------------------------
(* answer: the except clauses *)

HandlerStatusInternal(e) ==
    IF e = "KeyError" THEN 400 ELSE 500

HandlerStatus(e) ==
    IF e \in {"ValueError", "KeyError"} THEN 400
    ELSE IF e \in {"UndefinedError", "TemplateSyntaxError"} THEN 500
    ELSE 500

HandlerText(e) ==
    IF e \in {"ValueError", "KeyError"} THEN "Config Validation Error"
    ELSE IF e \in {"UndefinedError", "TemplateSyntaxError"} THEN "Template Error"
    ELSE "Internal Server Error"

NoResponse == [outcome |-> "none", status |-> 0, content |-> << >>]

\* the exception left answer(): no web.Response was built by the handler
Unhandled(e) == [outcome |-> "raised", status |-> 0, content |-> <<e>>]

Responded(st, text) == [outcome |-> "response", status |-> st, content |-> text]

\* line 41: request_data.get(...) and nic.get('mac') raise AttributeError on
\* a value that is not a dict; the statement stands outside both try blocks
LogLineRaises(b) ==
    \/ b.json \in NonObjects
    \/ \E i \in 1 .. Len(b.nics) : ~b.nics[i].obj

\* an exception raised inside create_answer reaches the except clauses
Fail(r, e, detail) ==
    /\ exc' = [exc EXCEPT ![r] = e]
    /\ response' = [response EXCEPT ![r] = Responded(HandlerStatus(e), <<HandlerText(e), detail>>)]
    /\ pc' = [pc EXCEPT ![r] = "done"]
    /\ running' = running \ {r}

----------------------------------------------------------------------------
(* Actions *)

InitHandlers(connected, longest) ==
    /\ disk \in Directories
    /\ nic_limit = longest
    /\ template \in Templates
    /\ running = {}
    /\ pc = [r \in Handlers |-> IF r \in connected THEN "idle" ELSE "off"]
    /\ body = [r \in Handlers |-> [json |-> "object", nics |-> << >>]]
    /\ final_config = [r \in Handlers |-> EmptyMap]
    /\ mac_config = [r \in Handlers |-> [found |-> FALSE, cfg |-> EmptyMap]]
    /\ idx = [r \in Handlers |-> 1]
    /\ looked = [r \in Handlers |-> << >>]
    /\ rendered_content = [r \in Handlers |-> NotRendered]
    /\ exc = [r \in Handlers |-> "none"]
    /\ response = [r \in Handlers |-> NoResponse]

\* one client
Init == InitHandlers({1}, MaxNics)

\* the loop accepts a connection and starts answer(), which suspends at
\* await request.text()
Accept(r) ==
    /\ pc[r] = "idle"
    /\ running = {}
    /\ \E b \in Bodies : Len(b.nics) <= nic_limit /\ body' = [body EXCEPT ![r] = b]
    /\ pc' = [pc EXCEPT ![r] = "recv"]
    /\ UNCHANGED <<disk, template, nic_limit, running, final_config, mac_config, idx, looked,
                   rendered_content, exc, response>>

\* lines 34-44: the body has arrived; json.loads, the log line, the call of
\* create_answer.  From here to its response the handler never awaits.
ReadBody(r) ==
    /\ pc[r] = "recv"
    /\ running = {}
    /\ IF body[r].json = "malformed"
       THEN /\ exc' = [exc EXCEPT ![r] = "JSONDecodeError"]
            /\ response' = [response EXCEPT ![r] =
                   Responded(400, <<"Bad Request: failed to parse request contents">>)]
            /\ pc' = [pc EXCEPT ![r] = "done"]
            /\ UNCHANGED running
       ELSE IF LogLineRaises(body[r])
       THEN /\ exc' = [exc EXCEPT ![r] = "AttributeError"]
            /\ response' = [response EXCEPT ![r] = Unhandled("AttributeError")]
            /\ pc' = [pc EXCEPT ![r] = "done"]
            /\ UNCHANGED running
       ELSE /\ pc' = [pc EXCEPT ![r] = "load_default"]
            /\ running' = {r}
            /\ UNCHANGED <<exc, response>>
    /\ UNCHANGED <<disk, template, nic_limit, body, final_config, mac_config, idx, looked,
                   rendered_content>>

\* lines 63-67
LoadDefault(r) ==
    /\ pc[r] = "load_default"
    /\ final_config' = [final_config EXCEPT ![r] = load_yaml(DEFAULT_CONFIG_PATH)]
    /\ mac_config' = [mac_config EXCEPT ![r] = [found |-> FALSE, cfg |-> EmptyMap]]
    /\ idx' = [idx EXCEPT ![r] = 1]
    /\ pc' = [pc EXCEPT ![r] = "scan"]
    /\ UNCHANGED <<disk, template, nic_limit, running, body, looked, rendered_content, exc, response>>

\* lines 69-77: one iteration of the for loop, or its end
ScanNic(r) ==
    /\ pc[r] = "scan"
    /\ IF idx[r] > Len(body[r].nics)
       THEN /\ pc' = [pc EXCEPT ![r] = "merge"]
            /\ UNCHANGED <<mac_config, idx, looked>>
       ELSE LET nic == body[r].nics[idx[r]]
            IN  IF ~nic.has_mac \/ nic.mac = << >>
                THEN /\ idx' = [idx EXCEPT ![r] = idx[r] + 1]
                     /\ UNCHANGED <<mac_config, looked, pc>>
                ELSE \E res \in lookup_config_for_mac(nic.mac) :
                        /\ looked' = [looked EXCEPT ![r] =
                               Append(looked[r], [mac |-> nic.mac, found |-> res.found,
                                                  file |-> res.file])]
                        /\ mac_config' = [mac_config EXCEPT ![r] =
                               [found |-> res.found, cfg |-> res.cfg]]
                        /\ IF res.found
                           THEN pc' = [pc EXCEPT ![r] = "merge"] /\ UNCHANGED idx
                           ELSE idx' = [idx EXCEPT ![r] = idx[r] + 1] /\ UNCHANGED pc
    /\ UNCHANGED <<disk, template, nic_limit, running, body, final_config, rendered_content, exc,
                   response>>

\* lines 80-83
Merge(r) ==
    /\ pc[r] = "merge"
    /\ final_config' = [final_config EXCEPT ![r] =
           IF mac_config[r].found THEN Update(final_config[r], mac_config[r].cfg)
           ELSE final_config[r]]
    /\ pc' = [pc EXCEPT ![r] = "check"]
    /\ UNCHANGED <<disk, template, nic_limit, running, body, mac_config, idx, looked,
                   rendered_content, exc, response>>

\* lines 86-89
CheckRequired(r) ==
    /\ pc[r] = "check"
    /\ LET missing == MissingFields(final_config[r])
       IN  IF missing # {}
           THEN Fail(r, "KeyError",
                     required_fields[CHOOSE i \in missing : \A j \in missing : i <= j])
           ELSE /\ pc' = [pc EXCEPT ![r] = "render"]
                /\ UNCHANGED <<running, exc, response>>
    /\ UNCHANGED <<disk, template, nic_limit, body, final_config, mac_config, idx, looked,
                   rendered_content>>

\* lines 92-96
RenderTemplate(r) ==
    /\ pc[r] = "render"
    /\ LET out == Render(template, final_config[r])
       IN  IF out.exc # "none"
           THEN Fail(r, out.exc, "template") /\ UNCHANGED rendered_content
           ELSE /\ rendered_content' = [rendered_content EXCEPT ![r] = out.text]
                /\ pc' = [pc EXCEPT ![r] = "validate"]
                /\ UNCHANGED <<running, exc, response>>
    /\ UNCHANGED <<disk, template, nic_limit, body, final_config, mac_config, idx, looked>>

\* lines 99-104 and line 45
Validate(r) ==
    /\ pc[r] = "validate"
    /\ IF ~TomlValid(rendered_content[r])
       THEN Fail(r, "ValueError", "invalid TOML")
       ELSE /\ response' = [response EXCEPT ![r] = Responded(200, rendered_content[r])]
            /\ pc' = [pc EXCEPT ![r] = "done"]
            /\ running' = running \ {r}
            /\ UNCHANGED exc
    /\ UNCHANGED <<disk, template, nic_limit, body, final_config, mac_config, idx, looked,
                   rendered_content>>

Next ==
    \/ \E r \in Handlers : Accept(r)
    \/ \E r \in Handlers : ReadBody(r)
    \/ \E r \in Handlers : LoadDefault(r)
    \/ \E r \in Handlers : ScanNic(r)
    \/ \E r \in Handlers : Merge(r)
    \/ \E r \in Handlers : CheckRequired(r)
    \/ \E r \in Handlers : RenderTemplate(r)
    \/ \E r \in Handlers : Validate(r)

Spec == Init /\ [][Next]_vars

\* every handler slot takes a client: requests overlap
InitConc == InitHandlers(Handlers, 1)

SpecConc == InitConc /\ [][Next]_vars

----------------------------------------------------------------------------
(* Vocabulary of the properties *)

Keys == {"server_hostname", "server_address", "extra"}

Mandatory == {"server_hostname", "server_address"}

DefaultConfig == load_yaml(DEFAULT_CONFIG_PATH)

\* the per-address override files: every *.yml of ./config but defaults.yml
OverrideSources == Glob \ {DEFAULT_CONFIG_PATH}

HasMac(nic) == nic.has_mac /\ nic.mac # << >>

\* the address has an override file: its lower-cased form starts the file's name
HasOverride(mac) == \E f \in OverrideSources : StartsWith(Lower(f), Lower(mac))

\* the interfaces of a request that carry an address with an override file
Overridden(r) ==
    {i \in 1 .. Len(body[r].nics) : HasMac(body[r].nics[i]) /\ HasOverride(body[r].nics[i].mac)}

\* the addresses of a list of interfaces, in order
Addresses(ns) ==
    LET withMac == SelectSeq(ns, HasMac)
    IN  [i \in 1 .. Len(withMac) |-> withMac[i].mac]

\* the request has been through the merge of step 3
Merged(r) ==
    \/ pc[r] \in {"check", "render", "validate"}
    \/ pc[r] = "done" /\ exc[r] \in {"none", "KeyError", "UndefinedError",
                                      "TemplateSyntaxError", "ValueError"}

Done(r) == pc[r] = "done"

\* the override the scan ended on, if it ended on one
Applied(r) == looked[r] # << >> /\ looked[r][Len(looked[r])].found

AppliedFile(r) == looked[r][Len(looked[r])].file

StripColons(s) == SelectSeq(s, LAMBDA c : c # ":")

\* a file's identifier: its name without the extension
Identifier(f) == SubSeq(f, 1, Len(f) - Len(YmlExt))

----------------------------------------------------------------------------
(* C1 *)

\* C1: when two or more interfaces of a request carry addresses that have an
\* override file, the scan looks up the addresses in request order up to the
\* first such interface and no further, and the effective config is the
\* default merged with an override file of that first interface only.
C1_FirstMatchOnly ==
    \A r \in Handlers :
        (Merged(r) /\ Cardinality(Overridden(r)) >= 2) =>
            LET first == CHOOSE i \in Overridden(r) : \A j \in Overridden(r) : i <= j
                mac == body[r].nics[first].mac
            IN  /\ [j \in 1 .. Len(looked[r]) |-> looked[r][j].mac]
                       = Addresses(SubSeq(body[r].nics, 1, first))
                /\ Applied(r)
                /\ AppliedFile(r) \in OverrideSources
                /\ StartsWith(Lower(AppliedFile(r)), Lower(mac))
                /\ final_config[r] = Update(DefaultConfig, load_yaml(AppliedFile(r)))

----------------------------------------------------------------------------
(* C2 *)

\* C2 as the specification states it: a lookup finds an override exactly when
\* some file's identifier (lower-cased, extension dropped) is a prefix of the
\* normalized address, and a request with the one address "A:B" and a file
\* ab.yml gets that file's server_hostname.
C2_IdentifierPrefixOfAddress ==
    \A r \in Handlers :
        /\ \A j \in 1 .. Len(looked[r]) :
               looked[r][j].found <=>
                   \E f \in Glob :
                       StartsWith(StripColons(Lower(looked[r][j].mac)), Lower(Identifier(f)))
        /\ (Merged(r) /\ body[r].nics = <<NicMac(<<"A", ":", "B">>)>> /\ F_ab \in DOMAIN disk)
               => ("server_hostname" \in DOMAIN final_config[r]
                   /\ final_config[r]["server_hostname"] = "custom")

\* C2 amended: a lookup finds an override exactly when the lower-cased address
\* is a prefix of some *.yml file's lower-cased name, and it loads such a file;
\* a request with the one address "AA", whose only such file is aa.yml, gets
\* server_hostname "custom" and every other default field unchanged.
C2_AddressPrefixOfFileName ==
    \A r \in Handlers :
        /\ \A j \in 1 .. Len(looked[r]) :
               LET mac == looked[r][j].mac
                   starting == {f \in Glob : StartsWith(Lower(f), Lower(mac))}
               IN  /\ looked[r][j].found <=> starting # {}
                   /\ looked[r][j].found => looked[r][j].file \in starting
        /\ (/\ Merged(r)
            /\ body[r].nics = <<NicMac(<<"A", "A">>)>>
            /\ {f \in Glob : StartsWith(Lower(f), <<"a", "a">>)} = {F_aa})
               => final_config[r] =
                      [k \in DOMAIN DefaultConfig \cup {"server_hostname"} |->
                          IF k = "server_hostname" THEN "custom" ELSE DefaultConfig[k]]

\* a lookup of "AA" loaded aab.yml, whose identifier is longer than the address
C2_Witness ==
    \E r \in Handlers :
        /\ Merged(r)
        /\ Applied(r)
        /\ AppliedFile(r) = F_aab
        /\ looked[r][Len(looked[r])].mac = <<"A", "A">>

----------------------------------------------------------------------------
(* C3 *)

\* C3: after the merge the effective config is the default config with at most
\* one override file laid over it key by key: the override's value where the
\* override has the key, else the default's value where the default has it,
\* else the key is absent; and it is the default config itself when no
\* address of the request has an override file.
C3_ShallowMerge ==
    \A r \in Handlers :
        Merged(r) =>
            LET ov == IF Applied(r) THEN load_yaml(AppliedFile(r)) ELSE EmptyMap
                fc == final_config[r]
            IN  /\ Applied(r) => AppliedFile(r) \in Glob
                /\ DOMAIN fc \subseteq Keys
                /\ \A k \in Keys :
                       /\ k \in DOMAIN ov => (k \in DOMAIN fc /\ fc[k] = ov[k])
                       /\ (k \notin DOMAIN ov /\ k \in DOMAIN DefaultConfig)
                              => (k \in DOMAIN fc /\ fc[k] = DefaultConfig[k])
                       /\ (k \notin DOMAIN ov /\ k \notin DOMAIN DefaultConfig)
                              => k \notin DOMAIN fc
                /\ (\A i \in 1 .. Len(body[r].nics) :
                        HasMac(body[r].nics[i]) => ~HasOverride(body[r].nics[i].mac))
                       => fc = DefaultConfig

\* an override replaced a key the default has and left another default key alone
C3_Witness ==
    \E r \in Handlers :
        /\ Merged(r)
        /\ Applied(r)
        /\ AppliedFile(r) = F_aa
        /\ "server_hostname" \in DOMAIN DefaultConfig
        /\ DefaultConfig["server_hostname"] = "host1"
        /\ final_config[r]["server_hostname"] = "custom"
        /\ "server_address" \in DOMAIN final_config[r]

----------------------------------------------------------------------------
(* C4 *)

\* C4 as the specification states it: a 200 needs a non-empty value for both
\* mandatory fields; a merged config in which one is absent or empty is
\* answered 400 without the template being rendered.
C4_NonEmptyMandatory ==
    \A r \in Handlers :
        Done(r) =>
            LET fc == final_config[r]
                bad == \E f \in Mandatory : f \notin DOMAIN fc \/ fc[f] = ""
            IN  /\ (response[r].outcome = "response" /\ response[r].status = 200) => ~bad
                /\ (Merged(r) /\ bad) =>
                       /\ response[r].outcome = "response"
                       /\ response[r].status = 400
                       /\ rendered_content[r] = NotRendered

\* C4 amended: a 200 needs both mandatory keys in the merged config; a merged
\* config that lacks one is answered 400, the template is not rendered and no
\* document is returned.  (A key present with an empty value passes.)
C4_PresentMandatory ==
    \A r \in Handlers :
        Done(r) =>
            LET fc == final_config[r]
                absent == \E f \in Mandatory : f \notin DOMAIN fc
            IN  /\ (response[r].outcome = "response" /\ response[r].status = 200) => ~absent
                /\ (Merged(r) /\ absent) =>
                       /\ response[r].outcome = "response"
                       /\ response[r].status = 400
                       /\ response[r].content[1] = "Config Validation Error"
                       /\ rendered_content[r] = NotRendered

\* a request ended 400 because server_address was missing after the merge
C4_Witness ==
    \E r \in Handlers :
        /\ Done(r)
        /\ exc[r] = "KeyError"
        /\ "server_hostname" \in DOMAIN final_config[r]
        /\ "server_address" \notin DOMAIN final_config[r]
        /\ response[r].status = 400

----------------------------------------------------------------------------
(* C5 *)

\* C5 as the specification states it: rendered text that is not TOML is
\* answered with status 500 and is not the response body.
C5_InvalidTomlIs500 ==
    \A r \in Handlers :
        (Done(r) /\ rendered_content[r] # NotRendered /\ ~TomlValid(rendered_content[r])) =>
            /\ response[r].outcome = "response"
            /\ response[r].status = 500
            /\ response[r].content # rendered_content[r]

\* C5 amended: rendered text that is not TOML is answered with status 400 (the
\* ValueError it raises is handled as a config validation error) and is not
\* the response body.
C5_InvalidTomlIs400 ==
    \A r \in Handlers :
        (Done(r) /\ rendered_content[r] # NotRendered /\ ~TomlValid(rendered_content[r])) =>
            /\ response[r].outcome = "response"
            /\ response[r].status = 400
            /\ response[r].content[1] = "Config Validation Error"
            /\ response[r].content # rendered_content[r]

\* a well-formed template rendered a value that breaks the TOML
C5_Witness ==
    \E r \in Handlers :
        /\ Done(r)
        /\ exc[r] = "ValueError"
        /\ rendered_content[r] # NotRendered
        /\ rendered_content[r][1] \notin BrokenLiterals
        /\ ~TomlValid(rendered_content[r])

----------------------------------------------------------------------------
(* C6 *)

\* C6: when both mandatory fields are in the merged config and the template
\* prints a variable that is not a key of it, the request is answered 500 with
\* a template error, nothing is rendered and no document is returned.
C6_UndefinedVariableIs500 ==
    \A r \in Handlers :
        (/\ Done(r)
         /\ Merged(r)
         /\ Mandatory \subseteq DOMAIN final_config[r]
         /\ \E i \in 1 .. Len(template.refs) : template.refs[i] \notin DOMAIN final_config[r])
            => /\ response[r].outcome = "response"
               /\ response[r].status = 500
               /\ response[r].content[1] = "Template Error"
               /\ rendered_content[r] = NotRendered

\* a parsable template printed "extra", which the merged config does not have
C6_Witness ==
    \E r \in Handlers :
        /\ Done(r)
        /\ exc[r] = "UndefinedError"
        /\ template.syntax_ok
        /\ Mandatory \subseteq DOMAIN final_config[r]
        /\ "extra" \notin DOMAIN final_config[r]

----------------------------------------------------------------------------
(* C7 *)

----------------------------------------------------------------------------
(* C8 *)

\* C8: every finished request was answered by the handler itself: a 200 whose
\* body is the rendered, valid document, or a 400 or 500 response.
C8_EveryOutcomeClassified ==
    \A r \in Handlers :
        Done(r) =>
            /\ response[r].outcome = "response"
            /\ response[r].status \in {200, 400, 500}
            /\ response[r].status = 200 =>
                   (response[r].content = rendered_content[r] /\ TomlValid(rendered_content[r]))

----------------------------------------------------------------------------
(* C9 *)

\* C9: while one request is in its override lookups, the loop can still accept
\* another client or resume another handler whose body has arrived.
C9_LookupDoesNotBlockLoop ==
    \A r, q \in Handlers :
        (r # q /\ pc[r] = "scan" /\ pc[q] \in {"idle", "recv"})
            => ENABLED (Accept(q) \/ ReadBody(q))

----------------------------------------------------------------------------
(* C10 *)

\* C10: no lookup loads defaults.yml as the override of an address.
C10_DefaultsNeverAnOverride ==
    \A r \in Handlers :
        \A j \in 1 .. Len(looked[r]) : looked[r][j].file # DEFAULT_CONFIG_PATH

====
